---- MODULE Spec2Model ----
(***************************************************************************)
(* A model of the dbt-duckdb ETL scripts: sync_remote_parquet.py and       *)
(* duckdbexport.py, with the table-selection rules of export_parquet.py    *)
(* and duckdb2sqlite.py.  The external stores (the local Parquet           *)
(* directory, the R2 bucket, the D1 database) are state; every external    *)
(* command a script issues is appended to cmds with its exit status.       *)
(***************************************************************************)
EXTENDS Integers, Sequences, FiniteSets, TLC

VARIABLES
    pc,                 \* position of the running script
    args,               \* the parsed command line
    cmds,               \* external commands issued so far, in order
    localFs,            \* local Parquet directory: file name -> content
    r2,                 \* bucket r2:wdi: file name -> content
    remote_dir,         \* temporary download directory: file name -> content
    local_files,        \* sync: the paths read from input_json
    lines,              \* sync: stdout of rclone check, as <<status, filename>>
    files_to_download,  \* sync: names queued for the fuzzy comparison
    changed,            \* sync: result list of get_changed_files
    output_json,        \* sync: what was written to output_json
    duck,               \* export: tables of wdi.duckdb: name -> frame
    changed_tables,     \* export: result of get_changed_mart_tables_from_parquet
    tables_to_update,   \* export: the tables chosen for R2 and D1
    pending,            \* export: directory entries the upload loop has not visited
    sqlite,             \* export: tables of the temporary SQLite file
    dumps,              \* export: cleaned per-table dump files written
    tix,                \* export: index into tables_to_update of the D1 loop
    d1,                 \* D1 database wdi: table name -> rows
    exit_code,          \* status passed to sys.exit, -1 while none
    r2_start,           \* history: the bucket as it was when the run started
    mart_tables,        \* drop_mart_tables_from_d1: the listed tables to drop
    content,            \* split_sql_dump: the text of the dump file, as characters
    max_statements,     \* split_sql_dump: the parameter
    statements,         \* split_sql_dump: the stripped pieces of content.split(';')
    output_files,       \* split_sql_dump: the files written, <<part number, text>>
    split_i,            \* split_sql_dump: the loop variable i
    dump_lines,         \* cleaner: dump_text.splitlines()
    clean_i,            \* cleaner: number of lines the loop has read
    skip_kv_block,      \* cleaner: the skip state
    cleaned_lines,      \* cleaner: the lines kept so far
    kept,               \* history: the positions in dump_lines of the lines kept
    zip_src,            \* populate: version of the WDI ZIP at the source
    zip_r2,             \* populate: version of the WDI ZIP in the R2 bucket, or "none"
    temp,               \* populate: the entries of temp_dir
    database,           \* populate: the database, [exists, wdi, pop]
    pop_data,           \* populate: result of fetch_population_data, "unfetched" before
    database_start,     \* history: the database as it was when the run started
    runs,               \* runs of duckdbexport.py that have ended before this one
    ever_changed,       \* history: the tables earlier runs found changed
    d1_start,           \* history: D1 as it was when update_d1.py started
    disk,               \* export_parquet: the files on disk, path to content
    exported_files,     \* export_parquet: the paths export_mart_tables_parquet returned
    json_output         \* export_parquet: the JSON file, [written, value]

envVars    == <<localFs, r2, remote_dir, d1, duck>>
syncVars   == <<local_files, lines, files_to_download, changed, output_json>>
exportVars == <<changed_tables, tables_to_update, pending, sqlite, dumps, tix, exit_code>>
splitVars  == <<content, max_statements, statements, output_files, split_i>>
cleanVars  == <<dump_lines, clean_i, skip_kv_block, cleaned_lines, kept>>
populateVars == <<zip_src, zip_r2, temp, database, pop_data, database_start>>
runVars    == <<runs, ever_changed, d1_start>>
parquetVars == <<disk, exported_files, json_output>>
laterVars  == <<populateVars, runVars, parquetVars>>
otherVars  == <<splitVars, cleanVars, laterVars>>
baseVars   == <<args, cmds, envVars, syncVars, exportVars, r2_start, mart_tables>>
vars       == <<pc, baseVars, otherVars>>

SplitIdle ==
    /\ content = <<>> /\ max_statements = 0 /\ statements = <<>>
    /\ output_files = <<>> /\ split_i = 0

CleanIdle ==
    /\ dump_lines = <<>> /\ clean_i = 0 /\ skip_kv_block = FALSE
    /\ cleaned_lines = <<>> /\ kept = <<>>

PopulateIdle ==
    /\ zip_src = "none" /\ zip_r2 = "none" /\ temp = {}
    /\ database = [exists |-> FALSE, wdi |-> "none", pop |-> "none"]
    /\ pop_data = "unfetched"
    /\ database_start = database

RunsIdle == runs = 0 /\ ever_changed = {} /\ d1_start = << >>

ParquetIdle ==
    /\ disk = << >> /\ exported_files = <<>>
    /\ json_output = [written |-> FALSE, value |-> <<>>]

LaterIdle == PopulateIdle /\ RunsIdle /\ ParquetIdle

OtherIdle == SplitIdle /\ CleanIdle /\ LaterIdle

----------------------------------------------------------------------------
(* Names.  A name is the sequence of its characters, so that prefix and    *)
(* suffix tests and slices are computed as Python computes them.           *)

fct_a == <<"f", "c", "t", "_", "a">>
dim_b == <<"d", "i", "m", "_", "b">>
agg_c == <<"a", "g", "g", "_", "c">>
stg_d == <<"s", "t", "g", "_", "d">>
xfct_ == <<"x", "f", "c", "t", "_">>

DotParquet == <<".", "p", "a", "r", "q", "u", "e", "t">>

Range(s) == {s[i] : i \in DOMAIN s}

\* str.startswith(prefix)
StartsWith(s, p) == Len(s) >= Len(p) /\ SubSeq(s, 1, Len(p)) = p

\* str.endswith(suffix)
EndsWith(s, p) == Len(s) >= Len(p) /\ SubSeq(s, Len(s) - Len(p) + 1, Len(s)) = p

\* f[:-8]
DropLast8(s) == SubSeq(s, 1, Len(s) - 8)

\* os.path.splitext(name)[0]: cut at the last dot that follows a non-dot character
LastDot(s) ==
    LET dots == {i \in DOMAIN s : s[i] = "." /\ \E j \in 1..(i - 1) : s[j] # "."}
    IN  IF dots = {} THEN 0 ELSE CHOOSE i \in dots : \A j \in dots : j <= i

SplitExtRoot(s) == IF LastDot(s) = 0 THEN s ELSE SubSeq(s, 1, LastDot(s) - 1)

\* f"{table_name}.parquet"
ParquetName(t) == t \o DotParquet

\* Paths are <<directory, base name>>.
Dirname(p) == p[1]
Basename(p) == p[2]
PathJoin(d, f) == <<d, f>>

----------------------------------------------------------------------------
(* File contents.  A Parquet file either loads as a frame (one numeric     *)
(* column, values in units of 1e-4) or fails to load.                      *)

Frame(rows) == [ok |-> TRUE, rows |-> rows]
Corrupt == [ok |-> FALSE, rows |-> <<>>]

Abs(x) == IF x < 0 THEN -x ELSE x
Max(x, y) == IF x >= y THEN x ELSE y

\* df.sort_values(by=sort_cols).reset_index(drop=True): insertion sort
RECURSIVE InsertSorted(_, _)
InsertSorted(x, s) ==
    IF s = <<>> THEN <<x>>
    ELSE IF x <= Head(s) THEN <<x>> \o s
    ELSE <<Head(s)>> \o InsertSorted(x, Tail(s))

RECURSIVE SortRows(_)
SortRows(s) == IF s = <<>> THEN <<>> ELSE InsertSorted(Head(s), SortRows(Tail(s)))

\* ValuesClose with the absolute tolerance only
ValuesCloseNoRtol(a, b) == Abs(a - b) <= 5

\* rtol=1e-5, atol=5e-4: |a - b| <= max(rtol * max(|a|, |b|), atol).  In units of
\* 1e-4 atol is 5 and rtol * m is m / 100000; the left side is an integer, so the
\* quotient may be rounded down.
ValuesClose(a, b) == Abs(a - b) <= Max(Max(Abs(a), Abs(b)) \div 100000, 5)

\* pd.testing.assert_frame_equal(local_df, remote_df, rtol, atol, check_exact=False)
\* does not raise AssertionError
FramesMatch(l, r) ==
    /\ Len(l) = Len(r)
    /\ \A i \in DOMAIN l : ValuesClose(l[i], r[i])

\* load_and_sort both files, then compare: "equal", "mismatch" (AssertionError)
\* or "error" (any other exception while loading)
CompareFiles(l, r) ==
    IF ~l.ok \/ ~r.ok THEN "error"
    ELSE IF FramesMatch(SortRows(l.rows), SortRows(r.rows)) THEN "equal"
    ELSE "mismatch"

----------------------------------------------------------------------------
(* External commands.  rc is the exit status: 0, 1, or 2 for any status    *)
(* of 2 and above.                                                         *)

Cmd(tool, verb, flag, src, dst, files, rc) ==
    [tool |-> tool, verb |-> verb, flag |-> flag, src |-> src, dst |-> dst,
     files |-> files, rc |-> rc]

R2Bucket == "r2:wdi"
TempDir == "<tmp>"

NoFiles == [f \in {} |-> Corrupt]

\* rclone copy of the named files from one store into another
CopyInto(dst, src, names) ==
    [f \in DOMAIN dst \cup (names \cap DOMAIN src) |->
        IF f \in names /\ f \in DOMAIN src THEN src[f] ELSE dst[f]]

----------------------------------------------------------------------------
(* sync_remote_parquet.py                                                  *)

SyncFileNames == {ParquetName(fct_a), ParquetName(dim_b)}
SyncDirs == {"", "out"}
SnapFrames == {<<0>>, <<4>>, <<10, 0>>, <<0, 10>>, <<1000000>>, <<1000008>>}
SnapContents == {Frame(r) : r \in SnapFrames} \cup {Corrupt}
MaxHashErrors == 1

DistinctSeqs(S) ==
    UNION {{s \in [1..n -> S] : \A i, j \in 1..n : i # j => s[i] # s[j]} :
              n \in 0..Cardinality(S)}

\* common_dir = os.path.dirname(local_files[0]), "." when empty
CommonDir == IF Dirname(local_files[1]) = "" THEN "." ELSE Dirname(local_files[1])

\* os.path.relpath(f, common_dir) for files that lie in common_dir
RelativeFiles == [i \in DOMAIN local_files |-> Basename(local_files[i])]

\* one line of "rclone check --combined -" for a file present locally
CheckStatus(f, bad) ==
    IF f \notin DOMAIN r2 THEN "+"
    ELSE IF f \in bad THEN "!"
    ELSE IF localFs[f] = r2[f] THEN "=" ELSE "*"

\* ParseLines with "+" queued for download instead of reported as changed
RECURSIVE ParseLinesPlusDownloaded(_, _, _, _)
ParseLinesPlusDownloaded(ls, common_dir, dl, ch) ==
    IF ls = <<>> THEN <<dl, ch>>
    ELSE IF Head(ls)[1] = "="
         THEN ParseLinesPlusDownloaded(Tail(ls), common_dir, dl, ch)
         ELSE ParseLinesPlusDownloaded(Tail(ls), common_dir, Append(dl, Head(ls)[2]), ch)

\* ParseLines with "=" queued for download like "*"
RECURSIVE ParseLinesEqDownloaded(_, _, _, _)
ParseLinesEqDownloaded(ls, common_dir, dl, ch) ==
    IF ls = <<>> THEN <<dl, ch>>
    ELSE IF Head(ls)[1] = "+"
         THEN ParseLinesEqDownloaded(Tail(ls), common_dir, dl,
                                     Append(ch, PathJoin(common_dir, Head(ls)[2])))
         ELSE ParseLinesEqDownloaded(Tail(ls), common_dir, Append(dl, Head(ls)[2]), ch)

\* the loop over result.stdout.splitlines(): <<files_to_download, changed>>
RECURSIVE ParseLines(_, _, _, _)
ParseLines(ls, common_dir, dl, ch) ==
    IF ls = <<>> THEN <<dl, ch>>
    ELSE LET status == Head(ls)[1]
             filename == Head(ls)[2]
         IN  IF status = "=" THEN ParseLines(Tail(ls), common_dir, dl, ch)
             ELSE IF status = "*" \/ status = "!"
                  THEN ParseLines(Tail(ls), common_dir, Append(dl, filename), ch)
             ELSE IF status = "+"
                  THEN ParseLines(Tail(ls), common_dir, dl,
                                  Append(ch, PathJoin(common_dir, filename)))
             ELSE ParseLines(Tail(ls), common_dir, dl, ch)

\* the comparison of one downloaded file with the local file
CompareDownloaded(filename) ==
    IF filename \notin DOMAIN localFs \/ filename \notin DOMAIN remote_dir THEN "error"
    ELSE CompareFiles(localFs[filename], remote_dir[filename])

\* CompareLoop that reports only an AssertionError, not a failed load
RECURSIVE CompareLoopSkipErrors(_, _, _)
CompareLoopSkipErrors(fs, common_dir, ch) ==
    IF fs = <<>> THEN ch
    ELSE IF CompareDownloaded(Head(fs)) = "mismatch"
         THEN CompareLoopSkipErrors(Tail(fs), common_dir,
                                    Append(ch, PathJoin(common_dir, Head(fs))))
         ELSE CompareLoopSkipErrors(Tail(fs), common_dir, ch)

\* the loop over files_to_download
RECURSIVE CompareLoop(_, _, _)
CompareLoop(fs, common_dir, ch) ==
    IF fs = <<>> THEN ch
    ELSE IF CompareDownloaded(Head(fs)) = "equal"
         THEN CompareLoop(Tail(fs), common_dir, ch)
         ELSE CompareLoop(Tail(fs), common_dir, Append(ch, PathJoin(common_dir, Head(fs))))

\* [os.path.splitext(os.path.basename(f))[0] for f in changed_files]
TablesOfFiles(fs) == [i \in DOMAIN fs |-> SplitExtRoot(Basename(fs[i]))]

NotWritten == [written |-> FALSE, value |-> <<>>]

ExportIdle ==
    /\ duck = NoFiles /\ d1 = NoFiles /\ sqlite = NoFiles /\ dumps = NoFiles
    /\ tables_to_update = <<>> /\ pending = {} /\ tix = 0 /\ exit_code = -1
    /\ mart_tables = <<>>

SyncInit ==
    /\ OtherIdle
    /\ pc = "sync_main"
    /\ args \in [no_updates : BOOLEAN]
    /\ cmds = <<>>
    /\ \E d \in SyncDirs, names \in DistinctSeqs(SyncFileNames) :
          /\ local_files = [i \in DOMAIN names |-> PathJoin(d, names[i])]
          /\ localFs \in [Range(names) -> SnapContents]
          /\ \E present \in SUBSET Range(names) : r2 \in [present -> SnapContents]
    /\ remote_dir = NoFiles
    /\ lines = <<>> /\ files_to_download = <<>> /\ changed = <<>>
    /\ changed_tables = <<>>
    /\ output_json = NotWritten
    /\ r2_start = r2
    /\ ExportIdle

syncFrame == <<duck, d1, sqlite, dumps, tables_to_update, pending, tix, exit_code, r2_start,
                   mart_tables, otherVars>>

\* get_changed_files, lines 19-20: an empty list returns at once
GetChangedFilesEmpty ==
    /\ pc = "sync_main"
    /\ local_files = <<>>
    /\ changed' = <<>>
    /\ pc' = "returned"
    /\ UNCHANGED <<args, cmds, envVars, local_files, lines, files_to_download,
                   output_json, changed_tables, syncFrame>>

\* get_changed_files, lines 50-57: rclone check, check=False
RcloneCheck ==
    /\ pc = "sync_main"
    /\ local_files # <<>>
    /\ \E fatal \in BOOLEAN, bad \in SUBSET Range(RelativeFiles) :
          /\ Cardinality(bad) <= MaxHashErrors
          /\ fatal => bad = {}
          /\ LET out == [i \in DOMAIN RelativeFiles |->
                            <<CheckStatus(RelativeFiles[i], bad), RelativeFiles[i]>>]
                 rc == IF fatal THEN 2
                       ELSE IF \A i \in DOMAIN out : out[i][1] = "=" THEN 0 ELSE 1
             IN  /\ lines' = IF fatal THEN <<>> ELSE out
                 /\ cmds' = Append(cmds, Cmd("rclone", "check", "", CommonDir, R2Bucket,
                                             RelativeFiles, rc))
    /\ pc' = "parse"
    /\ UNCHANGED <<args, envVars, local_files, files_to_download, changed,
                   output_json, changed_tables, syncFrame>>

\* get_changed_files, lines 59-82: classify the reported lines
ParseCheckOutput ==
    /\ pc = "parse"
    /\ LET res == ParseLines(lines, CommonDir, <<>>, <<>>)
       IN  /\ files_to_download' = res[1]
           /\ changed' = res[2]
           /\ pc' = IF res[1] # <<>> THEN "download" ELSE "returned"
    /\ UNCHANGED <<args, cmds, envVars, local_files, lines, output_json,
                   changed_tables, syncFrame>>

\* get_changed_files, lines 84-103: one rclone copy of the queued files, check=True
DownloadForInspection ==
    /\ pc = "download"
    /\ \E ok \in BOOLEAN :
          /\ cmds' = Append(cmds, Cmd("rclone", "copy", "", R2Bucket, TempDir,
                                      files_to_download, IF ok THEN 0 ELSE 2))
          /\ remote_dir' = IF ok THEN CopyInto(remote_dir, r2, Range(files_to_download))
                           ELSE remote_dir
          /\ pc' = IF ok THEN "compare" ELSE "error"
    /\ UNCHANGED <<args, localFs, r2, d1, duck, local_files, lines, files_to_download,
                   changed, output_json, changed_tables, syncFrame>>

\* get_changed_files, lines 105-130: compare and return
CompareAndReturn ==
    /\ pc = "compare"
    /\ changed' = CompareLoop(files_to_download, CommonDir, changed)
    /\ pc' = "returned"
    /\ UNCHANGED <<args, cmds, envVars, local_files, lines, files_to_download,
                   output_json, changed_tables, syncFrame>>

\* main, lines 195-207 without an upload: nothing changed, or --no-updates
SyncSkipUpload ==
    /\ pc = "returned"
    /\ changed = <<>> \/ args.no_updates
    /\ changed_tables' = IF changed # <<>> THEN TablesOfFiles(changed) ELSE <<>>
    /\ pc' = "write"
    /\ UNCHANGED <<args, cmds, envVars, syncVars, syncFrame>>

\* SyncLocalToRemote that does not look at --no-updates
SyncLocalToRemoteAlways ==
    /\ pc = "returned"
    /\ changed # <<>>
    /\ LET names == [i \in DOMAIN changed |-> Basename(changed[i])]
       IN  /\ cmds' = Append(cmds, Cmd("rclone", "copy", "", Dirname(changed[1]),
                                       R2Bucket, names, 0))
           /\ r2' = CopyInto(r2, localFs, Range(names))
           /\ changed_tables' = TablesOfFiles(changed)
           /\ pc' = "write"
    /\ UNCHANGED <<args, localFs, remote_dir, d1, duck, syncVars, syncFrame>>

\* sync_local_to_remote, lines 133-166: one rclone copy per directory, check=True
SyncLocalToRemote ==
    /\ pc = "returned"
    /\ changed # <<>> /\ ~args.no_updates
    /\ LET names == [i \in DOMAIN changed |-> Basename(changed[i])]
       IN  \E ok \in BOOLEAN :
              /\ cmds' = Append(cmds, Cmd("rclone", "copy", "", Dirname(changed[1]),
                                          R2Bucket, names, IF ok THEN 0 ELSE 2))
              /\ r2' = IF ok THEN CopyInto(r2, localFs, Range(names)) ELSE r2
              /\ changed_tables' = IF ok THEN TablesOfFiles(changed) ELSE changed_tables
              /\ pc' = IF ok THEN "write" ELSE "error"
    /\ UNCHANGED <<args, localFs, remote_dir, d1, duck, syncVars, syncFrame>>

\* main, lines 210-212: write output_json
WriteOutput ==
    /\ pc = "write"
    /\ output_json' = [written |-> TRUE, value |-> changed_tables]
    /\ pc' = "done"
    /\ UNCHANGED <<args, cmds, envVars, local_files, lines, files_to_download,
                   changed, changed_tables, syncFrame>>

SyncNext ==
    \/ GetChangedFilesEmpty
    \/ RcloneCheck
    \/ ParseCheckOutput
    \/ DownloadForInspection
    \/ CompareAndReturn
    \/ SyncSkipUpload
    \/ SyncLocalToRemote
    \/ WriteOutput

SpecSync == SyncInit /\ [][SyncNext]_vars

----------------------------------------------------------------------------
(* duckdbexport.py                                                         *)

\* the characters of the names, in code point order
Alphabet == <<".", "_", "a", "b", "c", "d", "e", "f", "g", "i", "m", "p", "q",
              "r", "s", "t", "u", "x">>

Ord(c) == CHOOSE i \in DOMAIN Alphabet : Alphabet[i] = c

\* s < t for Python strings
StrLess(s, t) ==
    \E k \in 1..(Len(s) + 1) :
        /\ k <= Len(t)
        /\ SubSeq(s, 1, k - 1) = SubSeq(t, 1, k - 1)
        /\ k = Len(s) + 1 \/ Ord(s[k]) < Ord(t[k])

\* SortedNames in descending order
RECURSIVE SortedNamesDescending(_)
SortedNamesDescending(S) ==
    IF S = {} THEN <<>>
    ELSE LET m == CHOOSE x \in S : \A y \in S \ {x} : StrLess(y, x)
         IN  <<m>> \o SortedNamesDescending(S \ {m})

\* sorted(names)
RECURSIVE SortedNames(_)
SortedNames(S) ==
    IF S = {} THEN <<>>
    ELSE LET m == CHOOSE x \in S : \A y \in S \ {x} : StrLess(x, y)
         IN  <<m>> \o SortedNames(S \ {m})

\* every order in which os.listdir may return the entries
Listings(S) == {l \in [1..Cardinality(S) -> S] : Range(l) = S}

\* IsMartTable with agg_ accepted as a mart prefix
IsMartTableWithAgg(t) ==
    \/ StartsWith(t, <<"f", "c", "t", "_">>)
    \/ StartsWith(t, <<"d", "i", "m", "_">>)
    \/ StartsWith(t, <<"a", "g", "g", "_">>)

\* table_name.startswith(("fct_", "dim_"))
IsMartTable(t) ==
    \/ StartsWith(t, <<"f", "c", "t", "_">>)
    \/ StartsWith(t, <<"d", "i", "m", "_">>)

\* export_mart_tables_parquet: COPY (SELECT ... ORDER BY all columns) TO
\* '<table>.parquet' for every mart table
ExportedParquet(db) ==
    [f \in {ParquetName(t) : t \in {u \in DOMAIN db : IsMartTable(u)}} |->
        Frame(SortRows(db[DropLast8(f)]))]

\* rclone --include "fct_*.parquet" --include "dim_*.parquet"
MatchesInclude(f) ==
    \/ StartsWith(f, <<"f", "c", "t", "_">>) /\ EndsWith(f, DotParquet) /\ Len(f) >= 12
    \/ StartsWith(f, <<"d", "i", "m", "_">>) /\ EndsWith(f, DotParquet) /\ Len(f) >= 12

\* FileChanged that compares the stored contents exactly, without tolerance
FileChangedExact(f, local, remote) ==
    IF f \notin DOMAIN remote THEN TRUE ELSE local[f] # remote[f]

\* the body of the loop of get_changed_mart_tables_from_parquet for one file
FileChanged(f, local, remote) ==
    IF f \notin DOMAIN remote THEN TRUE
    ELSE CompareFiles(local[f], remote[f]) # "equal"

\* get_changed_mart_tables_from_parquet(local_dir, remote_dir)
RECURSIVE ChangedLoop(_, _, _, _)
ChangedLoop(fs, local, remote, acc) ==
    IF fs = <<>> THEN acc
    ELSE ChangedLoop(Tail(fs), local, remote,
                     IF FileChanged(Head(fs), local, remote)
                     THEN Append(acc, DropLast8(Head(fs))) ELSE acc)

GetChangedMartTables(local, remote) ==
    ChangedLoop(SortedNames({f \in DOMAIN local : EndsWith(f, DotParquet)}),
                local, remote, <<>>)

\* BadArgs that accepts both flags together
BadArgsNeitherOnly == ~args.local_d1 /\ ~args.remote_d1

\* the usage test of main, line 402
BadArgs ==
    \/ args.local_d1 /\ args.remote_d1
    \/ ~args.local_d1 /\ ~args.remote_d1

D1Mode == IF args.local_d1 THEN "local" ELSE "remote"

\* flag = "--local" if d1_mode == "local" else "--remote"
WranglerFlag(d1_mode) == IF d1_mode = "local" THEN "--local" ELSE "--remote"

\* TablesToUpdate that ignores --force
TablesToUpdateChangedOnly(listing) == changed_tables

\* tables_to_update, lines 426-436; listing is os.listdir(parquet_dir)
TablesToUpdate(listing) ==
    IF args.force
    THEN LET parquet_files == SelectSeq(listing, LAMBDA f : EndsWith(f, DotParquet))
         IN  [i \in DOMAIN parquet_files |-> SplitExtRoot(parquet_files[i])]
    ELSE changed_tables

\* the test of the upload loop, line 441
UploadWanted(f) == args.force \/ DropLast8(f) \in Range(tables_to_update)

\* the rows a SELECT of the export may return: all of them, or with --sample-d1
\* any sample of them
RECURSIVE SubSeqs(_)
SubSeqs(rows) ==
    IF rows = <<>> THEN {<<>>}
    ELSE LET rest == SubSeqs(Tail(rows))
         IN  rest \cup {<<Head(rows)>> \o r : r \in rest}

\* export_duckdb_to_sqlite: the tables selected for the SQLite file
SqliteTables(db, tables_to_export) ==
    IF tables_to_export # <<>>
    THEN {t \in DOMAIN db : t \in Range(tables_to_export)}
    ELSE DOMAIN db

\* sqlite3 ".dump <table>" after the clean-up: the tables the dump creates, with rows
DumpOf(db, table) ==
    IF table \in DOMAIN db THEN <<[table |-> table, rows |-> db[table]]>> ELSE <<>>

\* wrangler d1 execute --file: run the CREATE TABLE IF NOT EXISTS and the INSERT
\* statements of the dump
LoadDump(db, dump) ==
    LET created == {dump[i].table : i \in DOMAIN dump}
        rowsOf(t) == dump[CHOOSE i \in DOMAIN dump : dump[i].table = t].rows
    IN  [t \in DOMAIN db \cup created |->
            IF t \notin created THEN db[t]
            ELSE IF t \in DOMAIN db THEN db[t] \o rowsOf(t)
            ELSE rowsOf(t)]

\* wrangler d1 execute --command "DROP TABLE IF EXISTS <table>;"
DropTable(db, table) == [t \in DOMAIN db \ {table} |-> db[t]]

MartNames == {fct_a, dim_b}
OtherNames == {agg_c, stg_d, xfct_}
DuckRows == {<<0>>, <<10, 0>>}
BucketContents == {Frame(<<4>>), Frame(<<0, 10>>), Corrupt}
OldRows == <<7>>

ArgSets ==
    [force : BOOLEAN, local_d1 : BOOLEAN, remote_d1 : BOOLEAN, ignore_d1 : BOOLEAN,
     sample_d1 : BOOLEAN]

SyncIdle ==
    /\ local_files = <<>> /\ lines = <<>> /\ files_to_download = <<>>
    /\ changed = <<>> /\ output_json = NotWritten

ExportInit ==
    /\ OtherIdle
    /\ pc = "export_main"
    /\ args \in ArgSets
    /\ cmds = <<>>
    /\ \E marts \in SUBSET MartNames :
          duck \in {[t \in marts \cup OtherNames |-> IF t \in marts THEN m[t] ELSE <<0>>] :
                       m \in [marts -> DuckRows]}
    /\ \E present \in SUBSET {ParquetName(t) : t \in MartNames} :
          r2 \in [present -> BucketContents]
    /\ \E loaded \in SUBSET MartNames : d1 = [t \in loaded |-> OldRows]
    /\ r2_start = r2
    /\ localFs = NoFiles /\ remote_dir = NoFiles
    /\ changed_tables = <<>> /\ tables_to_update = <<>> /\ pending = {}
    /\ sqlite = NoFiles /\ dumps = NoFiles /\ tix = 0 /\ exit_code = -1
    /\ mart_tables = <<>>
    /\ SyncIdle

\* main, lines 402-404: the usage error
ExportUsageError ==
    /\ pc = "export_main"
    /\ BadArgs
    /\ exit_code' = 1
    /\ pc' = "exit"
    /\ UNCHANGED <<args, cmds, envVars, syncVars, changed_tables, tables_to_update,
                   pending, sqlite, dumps, tix, r2_start,
                   mart_tables, otherVars>>

\* main, line 413: step 1, export the mart tables to parquet_dir
ExportMartTablesParquet ==
    /\ pc = "export_main"
    /\ ~BadArgs
    /\ localFs' = ExportedParquet(duck)
    /\ pc' = "download_remote"
    /\ UNCHANGED <<args, cmds, r2, remote_dir, d1, duck, syncVars, exportVars, r2_start,
                   mart_tables, otherVars>>

\* download_remote_parquet, lines 261-275: rclone copy r2:wdi remote_dir, check=True
DownloadRemoteParquet ==
    /\ pc = "download_remote"
    /\ \E ok \in BOOLEAN :
          /\ cmds' = Append(cmds, Cmd("rclone", "copy", "", R2Bucket, TempDir,
                                      <<"fct_*.parquet", "dim_*.parquet">>,
                                      IF ok THEN 0 ELSE 2))
          /\ remote_dir' = IF ok THEN CopyInto(NoFiles, r2,
                                               {f \in DOMAIN r2 : MatchesInclude(f)})
                           ELSE remote_dir
          /\ pc' = IF ok THEN "compare_remote" ELSE "error"
    /\ UNCHANGED <<args, localFs, r2, d1, duck, syncVars, exportVars, r2_start,
                   mart_tables, otherVars>>

\* main, lines 419-420, and the end of the with block of remote_parquet_dir
FindChangedTables ==
    /\ pc = "compare_remote"
    /\ changed_tables' = GetChangedMartTables(localFs, remote_dir)
    /\ remote_dir' = NoFiles
    /\ pc' = "decide"
    /\ UNCHANGED <<args, cmds, localFs, r2, d1, duck, syncVars, tables_to_update,
                   pending, sqlite, dumps, tix, exit_code, r2_start,
                   mart_tables, otherVars>>

\* main, lines 422-423: nothing changed and no --force
SkipUpdate ==
    /\ pc = "decide"
    /\ changed_tables = <<>> /\ ~args.force
    /\ pc' = "done"
    /\ UNCHANGED <<args, cmds, envVars, syncVars, exportVars, r2_start,
                   mart_tables, otherVars>>

\* main, lines 425-436: choose the tables to update
ChooseTables ==
    /\ pc = "decide"
    /\ ~(changed_tables = <<>> /\ ~args.force)
    /\ \E listing \in Listings(DOMAIN localFs) :
          tables_to_update' = TablesToUpdate(listing)
    /\ pending' = DOMAIN localFs
    /\ pc' = "upload"
    /\ UNCHANGED <<args, cmds, envVars, syncVars, changed_tables, sqlite, dumps, tix,
                   exit_code, r2_start,
                   mart_tables, otherVars>>

\* main, lines 439-447: one entry of os.listdir(parquet_dir); rclone copy, check=True
UploadParquet ==
    /\ pc = "upload"
    /\ \E f \in pending :
          /\ pending' = pending \ {f}
          /\ IF UploadWanted(f)
             THEN \E ok \in BOOLEAN :
                     /\ cmds' = Append(cmds, Cmd("rclone", "copy", "", TempDir, R2Bucket,
                                                 <<f>>, IF ok THEN 0 ELSE 2))
                     /\ r2' = IF ok THEN CopyInto(r2, localFs, {f}) ELSE r2
                     /\ pc' = IF ok THEN "upload" ELSE "error"
             ELSE UNCHANGED <<cmds, r2, pc>>
    /\ UNCHANGED <<args, localFs, remote_dir, d1, duck, syncVars, changed_tables,
                   tables_to_update, sqlite, dumps, tix, exit_code, r2_start,
                   mart_tables, otherVars>>

\* IgnoreD1 that never holds
IgnoreD1Never == FALSE

\* the test of line 448
IgnoreD1 == args.ignore_d1

\* main, lines 448-450: --ignore-d1 returns after the uploads
IgnoreD1Return ==
    /\ pc = "upload"
    /\ pending = {}
    /\ IgnoreD1
    /\ pc' = "done"
    /\ UNCHANGED <<args, cmds, envVars, syncVars, exportVars, r2_start,
                   mart_tables, otherVars>>

\* main, lines 453-456, export_duckdb_to_sqlite, lines 55-85
ExportDuckdbToSqlite ==
    /\ pc = "upload"
    /\ pending = {}
    /\ ~IgnoreD1
    /\ LET tables == SqliteTables(duck, tables_to_update)
       IN  \E q \in [tables -> UNION {SubSeqs(duck[t]) : t \in tables}] :
              /\ \A t \in tables :
                    /\ q[t] \in SubSeqs(duck[t])
                    /\ ~args.sample_d1 => q[t] = duck[t]
              /\ sqlite' = q
    /\ tix' = 1
    /\ pc' = IF tables_to_update = <<>> THEN "done" ELSE "d1_dump"
    /\ UNCHANGED <<args, cmds, envVars, syncVars, changed_tables, tables_to_update,
                   pending, dumps, exit_code, r2_start,
                   mart_tables, otherVars>>

\* dump_table_from_sqlite, lines 323-359: sqlite3 ".dump <table>", check=True
DumpTableFromSqlite ==
    /\ pc = "d1_dump"
    /\ LET table == tables_to_update[tix]
       IN  \E ok \in BOOLEAN :
              /\ cmds' = Append(cmds, Cmd("sqlite3", "dump", "", "wdi.sqlite3", "",
                                          <<table>>, IF ok THEN 0 ELSE 1))
              /\ dumps' = IF ok
                          THEN [t \in DOMAIN dumps \cup {table} |->
                                   IF t = table THEN DumpOf(sqlite, table) ELSE dumps[t]]
                          ELSE dumps
              /\ pc' = IF ok THEN "d1_drop" ELSE "error"
    /\ UNCHANGED <<args, envVars, syncVars, changed_tables, tables_to_update, pending,
                   sqlite, tix, exit_code, r2_start,
                   mart_tables, otherVars>>

\* drop_mart_table_from_d1, lines 364-371: wrangler DROP TABLE IF EXISTS, check=True
DropMartTableFromD1 ==
    /\ pc = "d1_drop"
    /\ LET table == tables_to_update[tix]
       IN  \E ok \in BOOLEAN :
              /\ cmds' = Append(cmds, Cmd("wrangler", "drop", WranglerFlag(D1Mode), "",
                                          "wdi", <<table>>, IF ok THEN 0 ELSE 1))
              /\ d1' = IF ok THEN DropTable(d1, table) ELSE d1
              /\ pc' = IF ok THEN "d1_load" ELSE "error"
    /\ UNCHANGED <<args, localFs, r2, remote_dir, duck, syncVars, exportVars, r2_start,
                   mart_tables, otherVars>>

\* update_d1_table_from_dump, lines 374-381: wrangler --file <dump>, check=True;
\* then the next table of the loop, or "Process complete."
UpdateD1TableFromDump ==
    /\ pc = "d1_load"
    /\ LET table == tables_to_update[tix]
       IN  \E ok \in BOOLEAN :
              /\ cmds' = Append(cmds, Cmd("wrangler", "load", WranglerFlag(D1Mode), "",
                                          "wdi", <<table>>, IF ok THEN 0 ELSE 1))
              /\ d1' = IF ok THEN LoadDump(d1, dumps[table]) ELSE d1
              /\ tix' = IF ok THEN tix + 1 ELSE tix
              /\ pc' = IF ~ok THEN "error"
                       ELSE IF tix < Len(tables_to_update) THEN "d1_dump" ELSE "done"
    /\ UNCHANGED <<args, localFs, r2, remote_dir, duck, syncVars, changed_tables,
                   tables_to_update, pending, sqlite, dumps, exit_code, r2_start,
                   mart_tables, otherVars>>

ExportNext ==
    \/ ExportUsageError
    \/ ExportMartTablesParquet
    \/ DownloadRemoteParquet
    \/ FindChangedTables
    \/ SkipUpdate
    \/ ChooseTables
    \/ UploadParquet
    \/ IgnoreD1Return
    \/ ExportDuckdbToSqlite
    \/ DumpTableFromSqlite
    \/ DropMartTableFromD1
    \/ UpdateD1TableFromDump

SpecExport == ExportInit /\ [][ExportNext]_vars

----------------------------------------------------------------------------
(* update_d1.py.  The names of changed_tables_json are in changed_tables;  *)
(* d1, duck, sqlite, dumps, tix and cmds are used as in duckdbexport.py.   *)

MaxUpdateList == 2

\* what json.load may return for changed_tables_json: any list of names
UpdateLists == UNION {[1..n -> MartNames] : n \in 0..MaxUpdateList}

UpdateArgSets == [local : BOOLEAN, remote : BOOLEAN, sample : BOOLEAN]

UpdateD1Init ==
    /\ SplitIdle /\ CleanIdle /\ PopulateIdle /\ ParquetIdle
    /\ runs = 0 /\ ever_changed = {}
    /\ pc = "update_main"
    /\ args \in UpdateArgSets
    /\ cmds = <<>>
    /\ \E present \in SUBSET MartNames : duck \in [present -> DuckRows]
    /\ \E loaded \in SUBSET MartNames : d1 = [t \in loaded |-> OldRows]
    /\ d1_start = d1
    /\ changed_tables \in UpdateLists
    /\ localFs = NoFiles /\ r2 = NoFiles /\ remote_dir = NoFiles /\ r2_start = NoFiles
    /\ tables_to_update = <<>> /\ pending = {}
    /\ sqlite = NoFiles /\ dumps = NoFiles /\ tix = 0 /\ exit_code = -1
    /\ mart_tables = <<>>
    /\ SyncIdle

updateFrame == <<localFs, r2, remote_dir, syncVars, tables_to_update, pending, exit_code,
                 r2_start, mart_tables, otherVars>>

\* the mutually exclusive required group of lines 112-116
UpdateBadArgs ==
    \/ args.local /\ args.remote
    \/ ~args.local /\ ~args.remote

\* d1_mode, line 124
UpdateD1Mode == IF args.local THEN "local" ELSE "remote"

\* AfterChecked that goes on whatever the exit status
AfterCheckedIgnoringStatus(ok, next) == next

\* subprocess.run(..., check=True): a status other than 0 raises, and nothing
\* catches it; otherwise the program goes on with the next step
AfterChecked(ok, next) == IF ok THEN next ELSE "error"

\* main, line 119: parse_args ends the program with status 2
UpdateUsageError ==
    /\ pc = "update_main"
    /\ UpdateBadArgs
    /\ exit_code' = 2
    /\ pc' = "exit"
    /\ UNCHANGED <<args, cmds, envVars, syncVars, changed_tables, tables_to_update,
                   pending, sqlite, dumps, tix, r2_start, mart_tables, otherVars>>

\* main, lines 121-131, export_duckdb_to_sqlite, lines 13-58: no SQLite table for
\* an empty list or for names that are not tables of the DuckDB file
UpdateExportDuckdbToSqlite ==
    /\ pc = "update_main"
    /\ ~UpdateBadArgs
    /\ LET tables == {t \in DOMAIN duck : t \in Range(changed_tables)}
       IN  \E q \in [tables -> UNION {SubSeqs(duck[t]) : t \in tables}] :
              /\ \A t \in tables :
                    /\ q[t] \in SubSeqs(duck[t])
                    /\ ~args.sample => q[t] = duck[t]
              /\ sqlite' = q
    /\ tix' = 1
    /\ pc' = IF changed_tables = <<>> THEN "done" ELSE "update_dump"
    /\ UNCHANGED <<args, cmds, envVars, changed_tables, dumps, updateFrame>>

\* dump_table_from_sqlite, lines 61-90: sqlite3 ".dump <table>", check=True
UpdateDumpTableFromSqlite ==
    /\ pc = "update_dump"
    /\ LET table == changed_tables[tix]
       IN  \E ok \in BOOLEAN :
              /\ cmds' = Append(cmds, Cmd("sqlite3", "dump", "", "wdi.sqlite3", "",
                                          <<table>>, IF ok THEN 0 ELSE 1))
              /\ dumps' = IF ok
                          THEN [t \in DOMAIN dumps \cup {table} |->
                                   IF t = table THEN DumpOf(sqlite, table) ELSE dumps[t]]
                          ELSE dumps
              /\ pc' = AfterChecked(ok, "update_drop")
    /\ UNCHANGED <<args, envVars, changed_tables, sqlite, tix, updateFrame>>

\* drop_mart_table_from_d1, lines 93-97: wrangler DROP TABLE IF EXISTS, check=True
UpdateDropMartTableFromD1 ==
    /\ pc = "update_drop"
    /\ LET table == changed_tables[tix]
       IN  \E ok \in BOOLEAN :
              /\ cmds' = Append(cmds, Cmd("wrangler", "drop", WranglerFlag(UpdateD1Mode),
                                          "", "wdi", <<table>>, IF ok THEN 0 ELSE 1))
              /\ d1' = IF ok THEN DropTable(d1, table) ELSE d1
              /\ pc' = AfterChecked(ok, "update_load")
    /\ UNCHANGED <<args, duck, changed_tables, sqlite, dumps, tix, updateFrame>>

\* update_d1_table_from_dump, lines 100-104: wrangler --file <dump>, check=True;
\* then the next name of the list, or "D1 update process complete."
UpdateD1FromDump ==
    /\ pc = "update_load"
    /\ LET table == changed_tables[tix]
       IN  \E ok \in BOOLEAN :
              /\ cmds' = Append(cmds, Cmd("wrangler", "load", WranglerFlag(UpdateD1Mode),
                                          "", "wdi", <<table>>, IF ok THEN 0 ELSE 1))
              /\ d1' = IF ok THEN LoadDump(d1, dumps[table]) ELSE d1
              /\ tix' = IF ok THEN tix + 1 ELSE tix
              /\ pc' = AfterChecked(ok, IF tix < Len(changed_tables) THEN "update_dump"
                                        ELSE "done")
    /\ UNCHANGED <<args, duck, changed_tables, sqlite, dumps, updateFrame>>

UpdateD1Next ==
    \/ UpdateUsageError
    \/ UpdateExportDuckdbToSqlite
    \/ UpdateDumpTableFromSqlite
    \/ UpdateDropMartTableFromD1
    \/ UpdateD1FromDump

SpecUpdateD1 == UpdateD1Init /\ [][UpdateD1Next]_vars

\* the two programs that hold the D1 update loop
D1LoopsInit == ExportInit \/ UpdateD1Init

D1LoopsNext == ExportNext \/ UpdateD1Next

SpecD1Loops == D1LoopsInit /\ [][D1LoopsNext]_vars

----------------------------------------------------------------------------
(* Runs of duckdbexport.py one after another, without --force and without  *)
(* --ignore-d1.  R2 and D1 last from one run to the next, the DuckDB file  *)
(* does not change, and the temporary directories of a run are gone when   *)
(* the run ends, whether it completed or a command raised.                 *)

MaxRuns == 2

RunArgSets == {a \in ArgSets : ~a.force /\ ~a.ignore_d1 /\ a.local_d1 # a.remote_d1}

RunsInit ==
    /\ ExportInit
    /\ args \in RunArgSets

\* the script is started again after a run has ended: main, lines 400-409, with
\* new temporary directories
StartNextRun ==
    /\ pc \in {"done", "error"}
    /\ runs + 1 < MaxRuns
    /\ runs' = runs + 1
    /\ ever_changed' = ever_changed \cup Range(changed_tables)
    /\ r2_start' = r2
    /\ cmds' = <<>>
    /\ localFs' = NoFiles /\ remote_dir' = NoFiles
    /\ changed_tables' = <<>> /\ tables_to_update' = <<>> /\ pending' = {}
    /\ sqlite' = NoFiles /\ dumps' = NoFiles /\ tix' = 0
    /\ pc' = "export_main"
    /\ UNCHANGED <<args, r2, d1, duck, syncVars, exit_code, mart_tables, splitVars,
                   cleanVars, populateVars, d1_start, parquetVars>>

RunsNext ==
    \/ ExportMartTablesParquet
    \/ DownloadRemoteParquet
    \/ FindChangedTables
    \/ SkipUpdate
    \/ ChooseTables
    \/ UploadParquet
    \/ ExportDuckdbToSqlite
    \/ DumpTableFromSqlite
    \/ DropMartTableFromD1
    \/ UpdateD1TableFromDump
    \/ StartNextRun

SpecRuns == RunsInit /\ [][RunsNext]_vars

----------------------------------------------------------------------------
(* The table selections outside duckdbexport.main: export_parquet.py,      *)
(* duckdb2sqlite.py and drop_mart_tables_from_d1.  args.script names the   *)
(* one that runs.                                                          *)

HeaderCell == <<"n", "a", "m", "e">>

\* the name cells of wrangler's output: the "name" values of the JSON results, or
\* the second cell of every line of the table output, whose first row is the header
ListedCells(format, names) == IF format = "table" THEN <<HeaderCell>> \o names ELSE names

\* MartTablesOf that keeps the fct_ tables only
MartTablesOfFctOnly(cells) ==
    SelectSeq(cells, LAMBDA table : StartsWith(table, <<"f", "c", "t", "_">>))

\* drop_mart_tables_from_d1, lines 172-177 and 187-191: the cells kept as mart tables
MartTablesOf(cells) ==
    SelectSeq(cells, LAMBDA table :
        /\ ~(table = HeaderCell \/ table = <<>>)
        /\ (StartsWith(table, <<"f", "c", "t", "_">>)
              \/ StartsWith(table, <<"d", "i", "m", "_">>)))

\* an internal table of D1, listed by sqlite_master beside the user tables
cf_meta == <<"_", "c", "f", "_", "M">>

SelectNames == MartNames \cup OtherNames \cup {cf_meta}

SelectInit ==
    /\ OtherIdle
    /\ pc = "select_main"
    /\ cmds = <<>>
    /\ \/ /\ args \in [script : {"export_parquet", "duckdb2sqlite"}, d1_mode : {"remote"}]
          /\ \E S \in SUBSET SelectNames : duck \in [S -> DuckRows]
          /\ d1 = NoFiles
       \/ /\ args \in [script : {"drop_marts"}, d1_mode : {"local", "remote"}]
          /\ duck = NoFiles
          /\ \E S \in SUBSET SelectNames : d1 = [t \in S |-> OldRows]
    /\ r2 = NoFiles /\ r2_start = NoFiles
    /\ localFs = NoFiles /\ remote_dir = NoFiles
    /\ changed_tables = <<>> /\ tables_to_update = <<>> /\ pending = {}
    /\ sqlite = NoFiles /\ dumps = NoFiles /\ tix = 0 /\ exit_code = -1
    /\ mart_tables = <<>>
    /\ SyncIdle

\* export_parquet.py, export_mart_tables_parquet, lines 10-38
ExportParquetScript ==
    /\ pc = "select_main"
    /\ args.script = "export_parquet"
    /\ localFs' = ExportedParquet(duck)
    /\ pc' = "done"
    /\ UNCHANGED <<args, cmds, r2, remote_dir, d1, duck, syncVars, exportVars, r2_start,
                   mart_tables, otherVars>>

\* duckdb2sqlite.py, export_duckdb_to_sqlite, lines 57-90
Duckdb2SqliteExport ==
    /\ pc = "select_main"
    /\ args.script = "duckdb2sqlite"
    /\ sqlite' = [t \in {u \in DOMAIN duck : IsMartTable(u)} |-> duck[t]]
    /\ pc' = "done"
    /\ UNCHANGED <<args, cmds, envVars, syncVars, changed_tables, tables_to_update,
                   pending, dumps, tix, exit_code, r2_start, mart_tables, otherVars>>

\* drop_mart_tables_from_d1, lines 155-195: list the tables with wrangler (the exit
\* status is not looked at), collect the mart tables, return when there are none
ListD1Tables ==
    /\ pc = "select_main"
    /\ args.script = "drop_marts"
    /\ \E ok \in BOOLEAN, format \in {"json", "table"}, names \in Listings(DOMAIN d1) :
          /\ cmds' = Append(cmds, Cmd("wrangler", "list", WranglerFlag(args.d1_mode), "",
                                      "wdi", <<>>, IF ok THEN 0 ELSE 1))
          /\ lines' = IF ok THEN ListedCells(format, names) ELSE <<>>
          /\ mart_tables' = MartTablesOf(lines')
          /\ tix' = 1
          /\ pc' = IF mart_tables' = <<>> THEN "done" ELSE "drop_loop"
    /\ UNCHANGED <<args, envVars, local_files, files_to_download, changed, output_json,
                   changed_tables, tables_to_update, pending, sqlite, dumps, exit_code,
                   r2_start, otherVars>>

\* drop_mart_tables_from_d1, lines 197-200: one DROP TABLE IF EXISTS, check=True
DropListedTable ==
    /\ pc = "drop_loop"
    /\ LET table == mart_tables[tix]
       IN  \E ok \in BOOLEAN :
              /\ cmds' = Append(cmds, Cmd("wrangler", "drop", WranglerFlag(args.d1_mode),
                                          "", "wdi", <<table>>, IF ok THEN 0 ELSE 1))
              /\ d1' = IF ok THEN DropTable(d1, table) ELSE d1
              /\ tix' = IF ok THEN tix + 1 ELSE tix
              /\ pc' = IF ~ok THEN "error"
                       ELSE IF tix < Len(mart_tables) THEN "drop_loop" ELSE "done"
    /\ UNCHANGED <<args, localFs, r2, remote_dir, duck, syncVars, changed_tables,
                   tables_to_update, pending, sqlite, dumps, exit_code, r2_start,
                   mart_tables, otherVars>>

SelectNext ==
    \/ ExportParquetScript
    \/ Duckdb2SqliteExport
    \/ ListD1Tables
    \/ DropListedTable

SpecSelect == SelectInit /\ [][SelectNext]_vars

----------------------------------------------------------------------------
(* export_parquet.py, main.  disk maps the paths of the files on disk to   *)
(* their content; the paths are <<directory, base name>>.                  *)

OutputDirs == {"", "out"}

\* what the disk may hold before the run: nothing, or a file of an earlier export
OldDisks == {NoFiles, [p \in {PathJoin("out", ParquetName(fct_a))} |-> Frame(OldRows)]}

ExportParquetInit ==
    /\ pc = "parquet_main"
    /\ args \in [output_dir : OutputDirs]
    /\ cmds = <<>>
    /\ \E S \in SUBSET SelectNames : duck \in [S -> DuckRows]
    /\ disk \in OldDisks
    /\ exported_files = <<>>
    /\ json_output = NotWritten
    /\ d1 = NoFiles /\ r2 = NoFiles /\ r2_start = NoFiles
    /\ localFs = NoFiles /\ remote_dir = NoFiles
    /\ changed_tables = <<>> /\ tables_to_update = <<>> /\ pending = {}
    /\ sqlite = NoFiles /\ dumps = NoFiles /\ tix = 0 /\ exit_code = -1
    /\ mart_tables = <<>>
    /\ SyncIdle /\ SplitIdle /\ CleanIdle /\ PopulateIdle /\ RunsIdle

parquetFrame == <<args, cmds, envVars, syncVars, exportVars, r2_start, mart_tables,
                  splitVars, cleanVars, populateVars, runVars>>

\* export_mart_tables_parquet, lines 10-38: the paths returned, for one order of
\* the rows of SHOW TABLES
ExportedPaths(output_dir, tables) ==
    LET marts == SelectSeq(tables, IsMartTable)
    IN  [i \in DOMAIN marts |-> PathJoin(output_dir, ParquetName(marts[i]))]

\* export_mart_tables_parquet, lines 28-32: the disk after the COPY statements
DiskAfterExport(output_dir, paths) ==
    [p \in DOMAIN disk \cup Range(paths) |->
        IF p \in Range(paths)
        THEN Frame(SortRows(duck[DropLast8(Basename(p))]))
        ELSE disk[p]]

\* shutil.rmtree of the directory at the end of "with TemporaryDirectory()"
DiskWithoutDir(d) == [p \in {q \in DOMAIN disk : Dirname(q) # d} |-> disk[p]]

\* main, lines 54-59: export into --output-dir
ExportToOutputDir ==
    /\ pc = "parquet_main"
    /\ args.output_dir # ""
    /\ \E ok \in BOOLEAN, tables \in Listings(DOMAIN duck) :
          LET paths == ExportedPaths(args.output_dir, tables)
          IN  /\ exported_files' = IF ok THEN paths ELSE exported_files
              /\ disk' = IF ok THEN DiskAfterExport(args.output_dir, paths) ELSE disk
              /\ pc' = IF ok THEN "parquet_write" ELSE "error"
    /\ UNCHANGED <<json_output, parquetFrame>>

\* main, lines 60-64: export into a temporary directory
ExportToTempDir ==
    /\ pc = "parquet_main"
    /\ args.output_dir = ""
    /\ \E tables \in Listings(DOMAIN duck) :
          LET paths == ExportedPaths(TempDir, tables)
          IN  /\ exported_files' = paths
              /\ disk' = DiskAfterExport(TempDir, paths)
    /\ pc' = "parquet_temp"
    /\ UNCHANGED <<json_output, parquetFrame>>

\* main, lines 61-66: the with block ends and the temporary directory is removed;
\* the same happens when the export raised
LeaveTempDir ==
    /\ pc = "parquet_temp"
    /\ \E ok \in BOOLEAN :
          /\ exported_files' = IF ok THEN exported_files ELSE <<>>
          /\ pc' = IF ok THEN "parquet_write" ELSE "error"
    /\ disk' = DiskWithoutDir(TempDir)
    /\ UNCHANGED <<json_output, parquetFrame>>

\* main, lines 68-74: json.dump(exported_files)
WriteJsonOutput ==
    /\ pc = "parquet_write"
    /\ json_output' = [written |-> TRUE, value |-> exported_files]
    /\ pc' = "done"
    /\ UNCHANGED <<disk, exported_files, parquetFrame>>

ExportParquetNext ==
    \/ ExportToOutputDir
    \/ ExportToTempDir
    \/ LeaveTempDir
    \/ WriteJsonOutput

SpecExportParquet == ExportParquetInit /\ [][ExportParquetNext]_vars

----------------------------------------------------------------------------
(* duckdbexport.get_changed_mart_tables_from_parquet on its own, for any   *)
(* pair of directories.                                                    *)

\* the entries the local directory may hold: three Parquet files and one other file
ChangedLocalNames == {ParquetName(fct_a), ParquetName(dim_b), ParquetName(agg_c), stg_d}
ChangedRemoteNames == {ParquetName(fct_a), ParquetName(dim_b), ParquetName(agg_c)}
ChangedContents ==
    {Frame(<<0>>), Frame(<<4>>), Frame(<<10, 0>>), Frame(<<0, 10>>), Corrupt}

ChangedInit ==
    /\ OtherIdle
    /\ pc = "changed_main"
    /\ args = [script |-> "get_changed_mart_tables_from_parquet"]
    /\ cmds = <<>>
    /\ \E S \in SUBSET ChangedLocalNames :
          localFs \in {[f \in S |-> IF f = stg_d THEN Frame(<<0>>) ELSE c[f]] :
                          c \in [S \ {stg_d} -> ChangedContents]}
    /\ \E S \in SUBSET ChangedRemoteNames : remote_dir \in [S -> ChangedContents]
    /\ r2 = NoFiles /\ r2_start = NoFiles
    /\ changed_tables = <<>>
    /\ SyncIdle /\ ExportIdle

\* get_changed_mart_tables_from_parquet, lines 289-320
GetChangedMartTablesCall ==
    /\ pc = "changed_main"
    /\ changed_tables' = GetChangedMartTables(localFs, remote_dir)
    /\ pc' = "done"
    /\ UNCHANGED <<args, cmds, envVars, syncVars, tables_to_update, pending, sqlite,
                   dumps, tix, exit_code, r2_start, mart_tables, otherVars>>

ChangedNext == GetChangedMartTablesCall

SpecChanged == ChangedInit /\ [][ChangedNext]_vars

----------------------------------------------------------------------------
(* duckdbexport.split_sql_dump.  Text is a sequence of characters.          *)

IsSpace(c) == c \in {" ", "\n"}

\* str.split(sep) for a one-character separator; cur is the piece being read
RECURSIVE SplitOn(_, _, _)
SplitOn(s, sep, cur) ==
    IF s = <<>> THEN <<cur>>
    ELSE IF Head(s) = sep THEN <<cur>> \o SplitOn(Tail(s), sep, <<>>)
    ELSE SplitOn(Tail(s), sep, Append(cur, Head(s)))

RECURSIVE LStrip(_)
LStrip(s) == IF s # <<>> /\ IsSpace(Head(s)) THEN LStrip(Tail(s)) ELSE s

RECURSIVE RStrip(_)
RStrip(s) ==
    IF s # <<>> /\ IsSpace(s[Len(s)]) THEN RStrip(SubSeq(s, 1, Len(s) - 1)) ELSE s

\* str.strip()
Strip(s) == RStrip(LStrip(s))

\* [stmt.strip() for stmt in content.split(';') if stmt.strip()]
SplitStatements(text) ==
    LET pieces == SplitOn(text, ";", <<>>)
        stripped == [k \in DOMAIN pieces |-> Strip(pieces[k])]
    IN  SelectSeq(stripped, LAMBDA x : x # <<>>)

\* ";\n".join(chunk) + ";\n" for a chunk that is not empty
RECURSIVE JoinChunk(_)
JoinChunk(chunk) ==
    IF chunk = <<>> THEN <<>>
    ELSE Head(chunk) \o <<";", "\n">> \o JoinChunk(Tail(chunk))

\* statements[i:i+max_statements]
Chunk(stmts, i, n) ==
    SubSeq(stmts, i + 1, IF i + n <= Len(stmts) THEN i + n ELSE Len(stmts))

\* the statements a dump may hold: a word, a statement over two lines, and an
\* INSERT whose text literal holds a semicolon
StmtTexts ==
    {<<"a">>, <<"b", "\n", "c">>, <<"v", "'", "d", ";", "e", "'">>}

MaxDumpStatements == 3
MaxPerFile == 2

\* the dump file: every statement followed by ";" and a newline
RECURSIVE DumpText(_)
DumpText(dump) ==
    IF dump = <<>> THEN <<>>
    ELSE Head(dump) \o <<";", "\n">> \o DumpText(Tail(dump))

SplitInit ==
    /\ pc = "split_main"
    /\ \E n \in 0..MaxDumpStatements : \E dump \in [1..n -> StmtTexts] :
          content = DumpText(dump)
    /\ max_statements \in 1..MaxPerFile
    /\ statements = <<>> /\ output_files = <<>> /\ split_i = 0
    /\ args = [script |-> "split_sql_dump"]
    /\ CleanIdle /\ LaterIdle
    /\ cmds = <<>>
    /\ localFs = NoFiles /\ r2 = NoFiles /\ remote_dir = NoFiles /\ r2_start = NoFiles
    /\ changed_tables = <<>>
    /\ SyncIdle /\ ExportIdle

\* split_sql_dump, lines 128-133: read the file and split it
ReadAndSplit ==
    /\ pc = "split_main"
    /\ statements' = SplitStatements(content)
    /\ output_files' = <<>>
    /\ split_i' = 0
    /\ pc' = "split_loop"
    /\ UNCHANGED <<baseVars, content, max_statements, cleanVars, laterVars>>

\* split_sql_dump, lines 134-144: one turn of the loop writes one file
WriteChunk ==
    /\ pc = "split_loop"
    /\ split_i < Len(statements)
    /\ LET chunk == Chunk(statements, split_i, max_statements)
       IN  output_files' = Append(output_files,
                                  [part |-> (split_i \div max_statements) + 1,
                                   text |-> JoinChunk(chunk)])
    /\ split_i' = split_i + max_statements
    /\ UNCHANGED <<pc, baseVars, content, max_statements, statements, cleanVars,
                   laterVars>>

\* split_sql_dump, line 145: return output_files
SplitReturn ==
    /\ pc = "split_loop"
    /\ split_i >= Len(statements)
    /\ pc' = "done"
    /\ UNCHANGED <<baseVars, otherVars>>

SplitNext ==
    \/ ReadAndSplit
    \/ WriteChunk
    \/ SplitReturn

SpecSplit == SplitInit /\ [][SplitNext]_vars

----------------------------------------------------------------------------
(* The SQL-dump cleaner: the loop of dump_and_clean_sqlite and of          *)
(* dump_table_from_sqlite.  A line is the sequence of its parts; the       *)
(* parts that the tests of the loop look for are parts of their own.       *)

BeginMark == "BEGIN TRANSACTION;"
CommitMark == "COMMIT;"
KvCreate == "CREATE TABLE _cf_KV "
WithoutRowid == "WITHOUT ROWID;"

\* line.startswith(prefix)
LineStartsWith(line, prefix) == line # <<>> /\ line[1] = prefix

\* part in line
LineContains(line, part) == \E k \in DOMAIN line : line[k] = part

\* the lines a dump may hold
DumpLines ==
    {<<BeginMark>>,
     <<CommitMark>>,
     <<KvCreate, "(">>,
     <<KvCreate, "(key TEXT PRIMARY KEY, value BLOB) ", WithoutRowid>>,
     <<"  key TEXT PRIMARY KEY,">>,
     <<") ", WithoutRowid>>,
     <<"INSERT INTO fct_a VALUES(1);">>,
     <<"CREATE TABLE dim_b (id INT PRIMARY KEY) ", WithoutRowid>>}

MaxDumpLines == 4

\* CleanStep that never enters the _cf_KV block
CleanStepNoKv(line, skip) ==
    IF LineStartsWith(line, BeginMark) \/ LineStartsWith(line, CommitMark)
    THEN [keep |-> FALSE, skip |-> skip]
    ELSE [keep |-> TRUE, skip |-> skip]

\* the body of the loop for one line: whether the line is kept, and the skip state
CleanStep(line, skip) ==
    IF LineStartsWith(line, BeginMark) \/ LineStartsWith(line, CommitMark)
    THEN [keep |-> FALSE, skip |-> skip]
    ELSE IF LineStartsWith(line, KvCreate)
    THEN [keep |-> FALSE, skip |-> TRUE]
    ELSE IF skip
    THEN [keep |-> FALSE, skip |-> ~LineContains(line, WithoutRowid)]
    ELSE [keep |-> TRUE, skip |-> skip]

CleanInit ==
    /\ pc = "clean_loop"
    /\ args \in [script : {"dump_and_clean_sqlite", "dump_table_from_sqlite"}]
    /\ \E n \in 0..MaxDumpLines : dump_lines \in [1..n -> DumpLines]
    /\ clean_i = 0 /\ skip_kv_block = FALSE /\ cleaned_lines = <<>> /\ kept = <<>>
    /\ cmds = <<>>
    /\ localFs = NoFiles /\ r2 = NoFiles /\ remote_dir = NoFiles /\ r2_start = NoFiles
    /\ changed_tables = <<>>
    /\ SyncIdle /\ ExportIdle /\ SplitIdle /\ LaterIdle

\* one turn of the loop over dump_text.splitlines()
CleanLine ==
    /\ pc = "clean_loop"
    /\ clean_i < Len(dump_lines)
    /\ LET line == dump_lines[clean_i + 1]
           step == CleanStep(line, skip_kv_block)
       IN  /\ cleaned_lines' = IF step.keep THEN Append(cleaned_lines, line)
                               ELSE cleaned_lines
           /\ kept' = IF step.keep THEN Append(kept, clean_i + 1) ELSE kept
           /\ skip_kv_block' = step.skip
    /\ clean_i' = clean_i + 1
    /\ UNCHANGED <<pc, baseVars, splitVars, dump_lines, laterVars>>

\* after the loop: "\n".join(cleaned_lines) is written to the output file
CleanWrite ==
    /\ pc = "clean_loop"
    /\ clean_i = Len(dump_lines)
    /\ pc' = "done"
    /\ UNCHANGED <<baseVars, otherVars>>

CleanNext ==
    \/ CleanLine
    \/ CleanWrite

SpecClean == CleanInit /\ [][CleanNext]_vars

----------------------------------------------------------------------------
(* populate.py.  The ZIP has a version; the database holds the version of  *)
(* the WDI tables loaded into it and the state of country_population.      *)

ZipVersions == {"v1", "v2"}

\* what fetch_population_data may return: records, or [] when the reply holds no
\* record or the request raised
PopReplies == {<<"ABW">>, <<>>}

Databases ==
    {[exists |-> FALSE, wdi |-> "none", pop |-> "none"]} \cup
    [exists : {TRUE}, wdi : {"none", "v1"}, pop : {"none", "old"}]

PopulateInit ==
    /\ pc = "pop_main"
    /\ args \in [use_duckdb : BOOLEAN]
    /\ cmds = <<>>
    /\ zip_src \in ZipVersions
    /\ zip_r2 \in ZipVersions \cup {"none"}
    /\ temp = {}
    /\ database \in Databases
    /\ database_start = database
    /\ pop_data = "unfetched"
    /\ localFs = NoFiles /\ r2 = NoFiles /\ remote_dir = NoFiles /\ r2_start = NoFiles
    /\ changed_tables = <<>>
    /\ SyncIdle /\ ExportIdle /\ SplitIdle /\ CleanIdle /\ RunsIdle /\ ParquetIdle

populateFrame == <<envVars, syncVars, exportVars, r2_start, mart_tables, splitVars,
                   cleanVars, runVars, parquetVars>>

\* download_file, lines 31-41: rclone copyurl, check=True
DownloadFile ==
    /\ pc = "pop_main"
    /\ \E ok \in BOOLEAN :
          /\ cmds' = Append(cmds, Cmd("rclone", "copyurl", "", "SOURCE", TempDir, <<>>,
                                      IF ok THEN 0 ELSE 1))
          /\ temp' = IF ok THEN {"zip"} ELSE {}
          /\ pc' = IF ok THEN "pop_check" ELSE "error"
    /\ UNCHANGED <<args, zip_src, zip_r2, database, pop_data, database_start, populateFrame>>

\* sync_to_r2, lines 46-50: rclone check; status 0 returns False
CheckUnchanged ==
    /\ pc = "pop_check"
    /\ zip_r2 = zip_src
    /\ cmds' = Append(cmds, Cmd("rclone", "check", "", TempDir, "R2_BUCKET", <<>>, 0))
    /\ pc' = "pop_fetch"
    /\ UNCHANGED <<args, populateVars, populateFrame>>

\* sync_to_r2, lines 46-52: rclone check ends with another status, because the ZIP
\* differs or is missing on R2 (1) or because the check itself failed (2)
CheckNotZero ==
    /\ pc = "pop_check"
    /\ \E rc \in {1, 2} :
          /\ rc = 1 => zip_r2 # zip_src
          /\ cmds' = Append(cmds, Cmd("rclone", "check", "", TempDir, "R2_BUCKET", <<>>,
                                      rc))
    /\ pc' = "pop_copy"
    /\ UNCHANGED <<args, populateVars, populateFrame>>

\* sync_to_r2, lines 53-55: rclone copy --checksum, check=True
CopyZipToR2 ==
    /\ pc = "pop_copy"
    /\ \E ok \in BOOLEAN :
          /\ cmds' = Append(cmds, Cmd("rclone", "copy", "", TempDir, "R2_BUCKET", <<>>,
                                      IF ok THEN 0 ELSE 1))
          /\ zip_r2' = IF ok THEN zip_src ELSE zip_r2
          /\ temp' = IF ok THEN temp ELSE {}
          /\ pc' = IF ok THEN "pop_process" ELSE "error"
    /\ UNCHANGED <<args, zip_src, database, pop_data, database_start, populateFrame>>

\* main, lines 221-234: unzip, then load every CSV file; with --use-duckdb an
\* existing database file is deleted first
ProcessWdi ==
    /\ pc = "pop_process"
    /\ temp' = temp \cup {"csv"}
    /\ database' = [exists |-> TRUE, wdi |-> zip_src,
              pop |-> IF args.use_duckdb THEN "none" ELSE database.pop]
    /\ pc' = "pop_fetch"
    /\ UNCHANGED <<args, cmds, zip_src, zip_r2, pop_data, database_start, populateFrame>>

\* main, line 237, fetch_population_data, lines 136-156
FetchPopulationData ==
    /\ pc = "pop_fetch"
    /\ pop_data' \in PopReplies
    /\ pc' = "pop_import"
    /\ UNCHANGED <<args, cmds, zip_src, zip_r2, temp, database, database_start,
                   populateFrame>>

\* main, lines 238-250: import when pop_data is not empty, then the clean-up
ImportPopulation ==
    /\ pc = "pop_import"
    /\ database' = IF pop_data # <<>> THEN [database EXCEPT !.exists = TRUE, !.pop = "new"] ELSE database
    /\ temp' = {}
    /\ pc' = "done"
    /\ UNCHANGED <<args, cmds, zip_src, zip_r2, pop_data, database_start, populateFrame>>

PopulateNext ==
    \/ DownloadFile
    \/ CheckUnchanged
    \/ CheckNotZero
    \/ CopyZipToR2
    \/ ProcessWdi
    \/ FetchPopulationData
    \/ ImportPopulation

SpecPopulate == PopulateInit /\ [][PopulateNext]_vars

----------------------------------------------------------------------------
(* Reference notions used by the properties, stated without the code's     *)
(* loops.                                                                  *)

\* the rows of a frame in ascending order
Ascending(rows) ==
    CHOOSE s \in [DOMAIN rows -> Range(rows)] :
        /\ \A i, j \in DOMAIN s : i <= j => s[i] <= s[j]
        /\ \A v \in Range(rows) :
               Cardinality({i \in DOMAIN s : s[i] = v})
                   = Cardinality({i \in DOMAIN rows : rows[i] = v})

\* two values agree within rtol = 1e-5, atol = 5e-4 (values in units of 1e-4)
WithinTolerance(a, b) ==
    LET d == IF a >= b THEN a - b ELSE b - a
        m == IF Abs(a) >= Abs(b) THEN Abs(a) ELSE Abs(b)
    IN  d <= 5 \/ d <= m \div 100000

\* both files load and their sorted contents agree within the tolerance
ContentAgrees(l, r) ==
    /\ l.ok /\ r.ok
    /\ Len(l.rows) = Len(r.rows)
    /\ \A i \in DOMAIN l.rows :
           WithinTolerance(Ascending(l.rows)[i], Ascending(r.rows)[i])

SyncReturned == pc \in {"returned", "write", "done"}

\* the rclone copy commands that download from the remote
Downloads == SelectSeq(cmds, LAMBDA c : c.verb = "copy" /\ c.src = R2Bucket)

\* the rclone copy commands whose destination is the remote
Uploads == SelectSeq(cmds, LAMBDA c : c.verb = "copy" /\ c.dst = R2Bucket)

Status(i) == lines[i][1]
FileOf(i) == lines[i][2]
LocalPath(i) == <<(IF local_files[1][1] = "" THEN "." ELSE local_files[1][1]), FileOf(i)>>

\* the file of line i was downloaded and its copy agrees with the local file
DownloadedAgrees(i) ==
    /\ FileOf(i) \in DOMAIN remote_dir
    /\ ContentAgrees(localFs[FileOf(i)], remote_dir[FileOf(i)])

----------------------------------------------------------------------------
(* Properties of sync_remote_parquet.py, checked under SpecSync.           *)

\* C1: when get_changed_files has returned, every file that rclone check reported
\* with "+" is in the result as common_dir/filename and was neither downloaded nor
\* compared, and no file reported with "=" is in the result.
C1_NewFilesReturned ==
    SyncReturned =>
        \A i \in DOMAIN lines :
            /\ Status(i) = "+" =>
                  /\ LocalPath(i) \in Range(changed)
                  /\ FileOf(i) \notin DOMAIN remote_dir
                  /\ \A k \in DOMAIN Downloads : FileOf(i) \notin Range(Downloads[k].files)
            /\ Status(i) = "=" => LocalPath(i) \notin Range(changed)

C1_Witness ==
    /\ pc = "returned"
    /\ \E i, j \in DOMAIN lines : Status(i) = "+" /\ Status(j) = "="
    /\ Len(changed) = 1

\* C2: every file reported with "*" or "!" is downloaded by exactly one rclone copy,
\* which has succeeded before the comparison starts and brought the remote file, and
\* when the comparison of the sorted frames fails or a load fails, the local path of
\* the file is in the result.
C2_DifferingFilesCompared ==
    /\ pc = "compare" =>
          /\ Len(Downloads) = 1
          /\ cmds[Len(cmds)] = Downloads[1]
          /\ Downloads[1].rc = 0
    /\ (pc = "compare" \/ SyncReturned) =>
          \A i \in DOMAIN lines :
              Status(i) \in {"*", "!"} =>
                  /\ Len(Downloads) = 1
                  /\ FileOf(i) \in Range(Downloads[1].files)
                  /\ FileOf(i) \in DOMAIN remote_dir
                  /\ pc \in {"compare", "returned"} => remote_dir[FileOf(i)] = r2[FileOf(i)]
                  /\ (SyncReturned /\ ~DownloadedAgrees(i)) => LocalPath(i) \in Range(changed)

C2_Witness ==
    /\ pc = "returned"
    /\ \E i, j \in DOMAIN lines :
          /\ Status(i) = "*" /\ localFs[FileOf(i)].ok /\ remote_dir[FileOf(i)].ok
          /\ Status(j) = "!" /\ ~remote_dir[FileOf(j)].ok
          /\ LocalPath(i) \in Range(changed) /\ LocalPath(j) \in Range(changed)

\* C3: a file reported with "*" whose sorted content agrees with the remote content
\* within the tolerance is not in the result although it was downloaded; when every
\* file not reported "=" is such a file, the result is the empty list.
C3_TolerantMatchNotChanged ==
    SyncReturned =>
        /\ \A i \in DOMAIN lines :
               (Status(i) = "*" /\ DownloadedAgrees(i)) =>
                   /\ LocalPath(i) \notin Range(changed)
                   /\ Len(Downloads) = 1
                   /\ FileOf(i) \in Range(Downloads[1].files)
        /\ (\A i \in DOMAIN lines :
                Status(i) # "=" => (Status(i) = "*" /\ DownloadedAgrees(i)))
              => changed = <<>>

C3_Witness ==
    /\ pc = "returned"
    /\ changed = <<>>
    /\ \E i \in DOMAIN lines :
          /\ Status(i) = "*" /\ DownloadedAgrees(i)
          /\ localFs[FileOf(i)].rows = <<1000000>>
          /\ remote_dir[FileOf(i)].rows = <<1000008>>

\* C4: when rclone check reports "=" for every local file, get_changed_files returns
\* the empty list and no rclone copy is issued; when local_files is empty it returns
\* the empty list and no external command is issued.
C4_NoChangesNoDownload ==
    pc = "returned" =>
        /\ local_files = <<>> => (changed = <<>> /\ cmds = <<>>)
        /\ (/\ local_files # <<>>
            /\ \A k \in DOMAIN local_files :
                   \E i \in DOMAIN lines : Status(i) = "=" /\ FileOf(i) = local_files[k][2])
              => /\ changed = <<>>
                 /\ \A k \in DOMAIN cmds : cmds[k].verb # "copy"

C4_Witness ==
    /\ pc = "returned"
    /\ Len(local_files) = 2
    /\ \A i \in DOMAIN lines : Status(i) = "="
    /\ Len(lines) = 2

\* C7: fail fast.  A command whose exit status signals failure (2 or more for
\* rclone check, whose status 1 reports differences; non-zero for every other
\* command) is the last command of the run and the script has stopped with an
\* error; it is never followed by a normal continuation.
CommandFailed(c) == IF c.verb = "check" THEN c.rc >= 2 ELSE c.rc # 0

C7_FailFast ==
    \A i \in DOMAIN cmds :
        CommandFailed(cmds[i]) => (i = Len(cmds) /\ pc = "error")

\* the changed files and tables as the report of rclone check and the downloaded
\* copies determine them, whatever the flags
RefChangedNames ==
    LET new == SelectSeq(lines, LAMBDA ln : ln[1] = "+")
        dif == SelectSeq(lines, LAMBDA ln :
                   /\ ln[1] \in {"*", "!"}
                   /\ ~(/\ ln[2] \in DOMAIN remote_dir
                        /\ ContentAgrees(localFs[ln[2]], remote_dir[ln[2]])))
    IN  [i \in 1..(Len(new) + Len(dif)) |->
            IF i <= Len(new) THEN new[i][2] ELSE dif[i - Len(new)][2]]

RefChangedTables == [i \in DOMAIN RefChangedNames |-> DropLast8(RefChangedNames[i])]

\* C8: with --no-updates the check is still run, no rclone copy has the remote as
\* its destination and no step changes the remote; with or without the flag the
\* list written to output_json is the list of changed tables that the local files,
\* the remote files and the report of rclone check determine.
C8_NoUpdatesKeepsRemote ==
    /\ [](args.no_updates => Len(Uploads) = 0)
    /\ [][args.no_updates => r2' = r2]_vars
    /\ [](pc = "done" =>
            /\ output_json.written
            /\ output_json.value = RefChangedTables
            /\ local_files # <<>> => (cmds # <<>> /\ cmds[1].verb = "check"))

C8_Witness ==
    /\ pc = "done"
    /\ args.no_updates
    /\ Len(output_json.value) = 2
    /\ \E i \in DOMAIN changed : changed[i][2] \notin DOMAIN r2
    /\ \E i \in DOMAIN changed : changed[i][2] \in DOMAIN remote_dir

----------------------------------------------------------------------------
(* Properties of duckdbexport.py, checked under SpecExport.                *)

\* the positions in cmds of the commands of one kind on one file or table
CmdsOn(verb, x) == {i \in DOMAIN cmds : cmds[i].verb = verb /\ cmds[i].files = <<x>>}

UploadsOf(f) == {i \in CmdsOn("copy", f) : cmds[i].dst = R2Bucket}

\* the local Parquet file differs from the snapshot the bucket held at the start
DiffersFromRemote(f) ==
    \/ f \notin DOMAIN r2_start
    \/ ~ContentAgrees(localFs[f], r2_start[f])

\* the table was dumped from SQLite, then dropped in D1, then loaded from that dump,
\* each once, and D1 holds the rows of the dump
Reloaded(t) ==
    /\ Cardinality(CmdsOn("dump", t)) = 1
    /\ Cardinality(CmdsOn("drop", t)) = 1
    /\ Cardinality(CmdsOn("load", t)) = 1
    /\ \E i \in CmdsOn("dump", t), j \in CmdsOn("drop", t), k \in CmdsOn("load", t) :
          i < j /\ j < k
    /\ t \in DOMAIN dumps /\ Len(dumps[t]) = 1
    /\ t \in DOMAIN d1 /\ d1[t] = dumps[t][1].rows
    /\ t \in DOMAIN sqlite /\ d1[t] = sqlite[t]
    /\ ~args.sample_d1 => d1[t] = duck[t]

Untouched(t) ==
    /\ UploadsOf(ParquetName(t)) = {}
    /\ CmdsOn("dump", t) = {} /\ CmdsOn("drop", t) = {} /\ CmdsOn("load", t) = {}

\* C5: in a completed run without --force and without --ignore-d1, every table whose
\* local Parquet file differs from the remote snapshot beyond the tolerance, or has
\* no remote snapshot, is uploaded to R2 once and dumped, dropped and reloaded in D1;
\* every other table is neither uploaded nor dumped, dropped or loaded; when no table
\* differs there is no upload and no D1 command.
C5_ChangedTablesUpdated ==
    (pc = "done" /\ ~args.force /\ ~args.ignore_d1) =>
        /\ \A f \in DOMAIN localFs :
              IF DiffersFromRemote(f)
              THEN /\ Cardinality(UploadsOf(f)) = 1
                   /\ r2[f] = localFs[f]
                   /\ Reloaded(DropLast8(f))
              ELSE /\ Untouched(DropLast8(f))
                   /\ r2[f] = r2_start[f]
        /\ \A t \in DOMAIN duck : ParquetName(t) \notin DOMAIN localFs => Untouched(t)
        /\ (\A f \in DOMAIN localFs : ~DiffersFromRemote(f)) =>
              \A i \in DOMAIN cmds : cmds[i].dst # R2Bucket /\ cmds[i].tool # "wrangler"

C5_Witness ==
    /\ pc = "done" /\ ~args.force /\ ~args.ignore_d1
    /\ \E f, g \in DOMAIN localFs :
          /\ f \in DOMAIN r2_start /\ r2_start[f].ok /\ DiffersFromRemote(f)
          /\ r2[f] = localFs[f] /\ d1[DropLast8(f)] = duck[DropLast8(f)]
          /\ ~DiffersFromRemote(g) /\ r2[g] # localFs[g]
          /\ DropLast8(g) \in DOMAIN d1 /\ d1[DropLast8(g)] = OldRows

\* C9: when both or neither of --local-d1 and --remote-d1 are given, main exits with
\* status 1 with nothing exported and no external command issued; otherwise no usage
\* error is raised and every wrangler command carries --local with --local-d1 and
\* --remote with --remote-d1.
C9_ExactlyOneD1Target ==
    IF args.local_d1 = args.remote_d1
    THEN /\ pc \in {"export_main", "exit"}
         /\ pc = "exit" => exit_code = 1
         /\ cmds = <<>> /\ localFs = NoFiles /\ sqlite = NoFiles /\ remote_dir = NoFiles
    ELSE /\ pc # "exit" /\ exit_code = -1
         /\ \A i \in DOMAIN cmds :
               cmds[i].tool = "wrangler" =>
                   cmds[i].flag = (IF args.local_d1 THEN "--local" ELSE "--remote")

C9_Witness ==
    /\ pc = "exit" /\ exit_code = 1
    /\ args.local_d1 /\ args.remote_d1
    /\ duck # NoFiles

\* C10: in a completed run with --force every Parquet file exported in the run is
\* uploaded to R2, and unless --ignore-d1 its table is dumped, dropped and reloaded in
\* D1, whether or not the comparison found the table changed.
C10_ForceUpdatesAll ==
    (pc = "done" /\ args.force) =>
        \A t \in DOMAIN duck :
            ParquetName(t) \in DOMAIN localFs =>
                /\ Cardinality(UploadsOf(ParquetName(t))) = 1
                /\ r2[ParquetName(t)] = localFs[ParquetName(t)]
                /\ ~args.ignore_d1 => Reloaded(t)

C10_Witness ==
    /\ pc = "done" /\ args.force /\ ~args.ignore_d1
    /\ changed_tables = <<>>
    /\ Cardinality(DOMAIN localFs) = 2
    /\ \A f \in DOMAIN localFs : Cardinality(UploadsOf(f)) = 1 /\ Reloaded(DropLast8(f))

\* C11: in a run with --ignore-d1 the SQLite export never runs, no table is dumped,
\* and no wrangler command (DROP or load) is issued; the run ends after the uploads.
C11_IgnoreD1SkipsD1 ==
    args.ignore_d1 =>
        /\ pc \notin {"d1_dump", "d1_drop", "d1_load"}
        /\ tix = 0 /\ sqlite = NoFiles /\ dumps = NoFiles
        /\ \A i \in DOMAIN cmds :
              cmds[i].tool \notin {"sqlite3", "wrangler"}
                  /\ cmds[i].verb \notin {"dump", "drop", "load"}

C11_Witness ==
    /\ pc = "done" /\ args.ignore_d1 /\ ~args.force
    /\ changed_tables # <<>>
    /\ \E f \in DOMAIN localFs : UploadsOf(f) # {} /\ r2[f] = localFs[f]
    /\ \E t \in DOMAIN d1 : d1[t] = OldRows /\ t \in Range(changed_tables)

----------------------------------------------------------------------------
(* Properties of the table selections, checked under SpecSelect.           *)

FirstFour(t) == <<t[1], t[2], t[3], t[4]>>

HasFctOrDim(t) ==
    Len(t) >= 4 /\ FirstFour(t) \in {<<"f", "c", "t", "_">>, <<"d", "i", "m", "_">>}

HasFctDimOrAgg(t) ==
    Len(t) >= 4 /\ FirstFour(t) \in {<<"f", "c", "t", "_">>, <<"d", "i", "m", "_">>,
                                     <<"a", "g", "g", "_">>}

\* the selection made by the script that ran, for a given notion of mart table:
\* the Parquet export and the SQLite export take exactly the mart tables of DuckDB;
\* the D1 drop issues DROP commands only for listed mart tables and, once it has
\* completed, for every listed mart table
SelectsExactly(IsMart(_)) ==
    /\ (args.script = "export_parquet" /\ pc = "done") =>
          \A t \in DOMAIN duck : ParquetName(t) \in DOMAIN localFs <=> IsMart(t)
    /\ (args.script = "duckdb2sqlite" /\ pc = "done") =>
          \A t \in DOMAIN duck : t \in DOMAIN sqlite <=> IsMart(t)
    /\ args.script = "drop_marts" =>
          /\ \A i \in DOMAIN cmds :
                cmds[i].verb = "drop" =>
                    IsMart(cmds[i].files[1]) /\ cmds[i].files[1] \in Range(lines)
          /\ pc = "done" =>
                \A k \in DOMAIN lines :
                    (lines[k] # HeaderCell /\ IsMart(lines[k])) => CmdsOn("drop", lines[k]) # {}

\* C6 as stated: a table is exported to Parquet, exported to SQLite or dropped from
\* D1 exactly when its name starts with fct_, dim_ or agg_.
C6_MartPrefixesWithAgg == SelectsExactly(HasFctDimOrAgg)

\* C6, amended: a table is exported to Parquet, exported to SQLite or dropped from D1
\* exactly when its name starts with fct_ or dim_; every other table, those that
\* start with agg_ included, is skipped.
C6_MartPrefixes == SelectsExactly(HasFctOrDim)

C6_Witness ==
    /\ pc = "done" /\ args.script = "export_parquet"
    /\ {fct_a, dim_b, agg_c, xfct_} \subseteq DOMAIN duck
    /\ DOMAIN localFs = {ParquetName(fct_a), ParquetName(dim_b)}

\* the tables wrangler listed, and the mart tables among them, in listing order
ListedTables == SelectSeq(lines, LAMBDA c : c # HeaderCell)
ListedMarts == SelectSeq(ListedTables, HasFctOrDim)

\* the DROP commands issued so far, in order
DropCmds == SelectSeq(cmds, LAMBDA c : c.verb = "drop")

\* C12: drop_mart_tables_from_d1 issues its DROP commands for the listed tables that
\* start with fct_ or dim_, in listing order and one per table: at every moment the
\* tables dropped so far are an initial part of the listed mart tables, only the last
\* DROP may have failed, and when the function has returned every listed mart table
\* has been dropped once and every other listed table is still in D1; a listing
\* without a mart table leads to no DROP command.
C12_DropsListedMarts ==
    args.script = "drop_marts" =>
        /\ Len(DropCmds) <= Len(ListedMarts)
        /\ \A k \in DOMAIN DropCmds :
              /\ DropCmds[k].files = <<ListedMarts[k]>>
              /\ k < Len(DropCmds) => DropCmds[k].rc = 0
        /\ ListedMarts = <<>> => DropCmds = <<>>
        /\ pc = "done" =>
              /\ Len(DropCmds) = Len(ListedMarts)
              /\ \A t \in Range(ListedTables) :
                    t \in DOMAIN d1 <=> t \notin Range(ListedMarts)

C12_Witness ==
    /\ args.script = "drop_marts" /\ pc = "done"
    /\ ListedTables = <<cf_meta, dim_b, agg_c, fct_a>>
    /\ Len(DropCmds) = 2
    /\ DropCmds[1].files = <<dim_b>> /\ DropCmds[2].files = <<fct_a>>
    /\ DOMAIN d1 = {cf_meta, agg_c}

----------------------------------------------------------------------------
(* Properties of split_sql_dump, checked under SpecSplit.                  *)

\* the statements of an SQL text: it is cut at the semicolons that lie outside the
\* text literals, and the space around each statement does not count
RECURSIVE SqlSplit(_, _, _)
SqlSplit(s, cur, quoted) ==
    IF s = <<>> THEN <<cur>>
    ELSE IF Head(s) = ";" /\ ~quoted THEN <<cur>> \o SqlSplit(Tail(s), <<>>, FALSE)
    ELSE SqlSplit(Tail(s), Append(cur, Head(s)),
                  IF Head(s) = "'" THEN ~quoted ELSE quoted)

SqlStatements(text) ==
    LET pieces == SqlSplit(text, <<>>, FALSE)
        stripped == [k \in DOMAIN pieces |-> Strip(pieces[k])]
    IN  SelectSeq(stripped, LAMBDA x : x # <<>>)

\* the statements of the first k files, in order
RECURSIVE StatementsOfFiles(_, _)
StatementsOfFiles(fs, k) ==
    IF k = 0 THEN <<>>
    ELSE StatementsOfFiles(fs, k - 1) \o SqlStatements(fs[k].text)

\* C13: when split_sql_dump has returned, a dump of n statements has given
\* ceil(n / max_statements) files numbered 1, 2, ... in that order, every file but
\* the last holds max_statements statements and the last at most that many, the
\* statements of the files read in order are the statements of the dump, and a dump
\* without a statement has given no file.
C13_SplitKeepsStatements ==
    pc = "done" =>
        LET n == Len(SqlStatements(content))
            k == (n + max_statements - 1) \div max_statements
        IN  /\ Len(output_files) = k
            /\ \A j \in DOMAIN output_files :
                  /\ output_files[j].part = j
                  /\ Len(SqlStatements(output_files[j].text)) <= max_statements
                  /\ j < k => Len(SqlStatements(output_files[j].text)) = max_statements
            /\ StatementsOfFiles(output_files, Len(output_files)) = SqlStatements(content)

----------------------------------------------------------------------------
(* Properties of get_changed_mart_tables_from_parquet, checked under       *)
(* SpecChanged.                                                            *)

\* the code point of a character of the names
CodePoint(c) ==
    CASE c = "." -> 46 [] c = "_" -> 95 [] c = "a" -> 97 [] c = "b" -> 98
      [] c = "c" -> 99 [] c = "d" -> 100 [] c = "e" -> 101 [] c = "f" -> 102
      [] c = "g" -> 103 [] c = "i" -> 105 [] c = "m" -> 109 [] c = "p" -> 112
      [] c = "q" -> 113 [] c = "r" -> 114 [] c = "s" -> 115 [] c = "t" -> 116
      [] c = "u" -> 117 [] c = "x" -> 120

\* s comes before t in the order of the file names
NameBefore(s, t) ==
    \/ Len(s) < Len(t) /\ \A k \in DOMAIN s : s[k] = t[k]
    \/ \E k \in DOMAIN s \cap DOMAIN t :
          /\ \A j \in 1..(k - 1) : s[j] = t[j]
          /\ CodePoint(s[k]) < CodePoint(t[k])

IsParquetFile(f) ==
    Len(f) >= 8 /\ [k \in 1..8 |-> f[Len(f) - 8 + k]] = DotParquet

\* the local Parquet files that have to be reported
MustReport ==
    {f \in DOMAIN localFs :
        /\ IsParquetFile(f)
        /\ \/ f \notin DOMAIN remote_dir
           \/ ~ContentAgrees(localFs[f], remote_dir[f])}

\* C14: the result of get_changed_mart_tables_from_parquet holds exactly the names,
\* without ".parquet", of the local Parquet files whose remote counterpart is missing,
\* or which cannot be loaded on either side, or whose sorted contents differ beyond
\* the tolerance; each name occurs once and the names are in ascending order of the
\* file names; a file that agrees with the remote file within the tolerance is absent.
C14_ChangedTablesExact ==
    pc = "done" =>
        /\ Range(changed_tables) = {DropLast8(f) : f \in MustReport}
        /\ Len(changed_tables) = Cardinality(MustReport)
        /\ \A i, j \in DOMAIN changed_tables :
              i < j => NameBefore(ParquetName(changed_tables[i]),
                                  ParquetName(changed_tables[j]))

C14_Witness ==
    /\ pc = "done"
    /\ DOMAIN localFs = ChangedLocalNames
    /\ ~localFs[ParquetName(agg_c)].ok
    /\ ParquetName(agg_c) \in DOMAIN remote_dir
    /\ ParquetName(fct_a) \notin DOMAIN remote_dir
    /\ ParquetName(dim_b) \in DOMAIN remote_dir
    /\ localFs[ParquetName(dim_b)] # remote_dir[ParquetName(dim_b)]
    /\ changed_tables = <<agg_c, fct_a>>

----------------------------------------------------------------------------
(* Properties of the SQL-dump cleaner, checked under SpecClean.            *)

IsMarker(line) == line[1] \in {BeginMark, CommitMark}
IsKvCreate(line) == line[1] = KvCreate
HasWithoutRowid(line) == WithoutRowid \in Range(line)

\* line k lies between a CREATE TABLE _cf_KV line and the next later line that
\* contains WITHOUT ROWID;, both included
InKvBlock(k) ==
    \E i \in 1..k :
        /\ IsKvCreate(dump_lines[i])
        /\ \A j \in (i + 1)..(k - 1) : ~HasWithoutRowid(dump_lines[j])

\* C15: no line kept by the cleaner starts with BEGIN TRANSACTION; or COMMIT;, and
\* no line kept is the CREATE TABLE _cf_KV line or lies between it and the next
\* line containing WITHOUT ROWID;, inclusive; the output is the kept lines.
C15_CleanerRemovesBlocks ==
    /\ \A n \in DOMAIN kept :
          /\ ~IsMarker(dump_lines[kept[n]])
          /\ ~IsKvCreate(dump_lines[kept[n]])
          /\ ~InKvBlock(kept[n])
    /\ cleaned_lines = [n \in DOMAIN kept |-> dump_lines[kept[n]]]

C15_Witness ==
    /\ pc = "done"
    /\ Len(dump_lines) = 3
    /\ IsKvCreate(dump_lines[1]) /\ ~HasWithoutRowid(dump_lines[1])
    /\ HasWithoutRowid(dump_lines[2])
    /\ kept = <<3>>

\* line k belongs to a CREATE TABLE _cf_KV ... WITHOUT ROWID; statement: the
\* statement starts at a CREATE TABLE _cf_KV line and ends at the first line, that
\* line included, which contains WITHOUT ROWID;
InKvStatement(k) ==
    \E i \in 1..k :
        /\ IsKvCreate(dump_lines[i])
        /\ \A j \in i..(k - 1) : ~HasWithoutRowid(dump_lines[j])

\* C17: the cleaner keeps, in order, exactly the lines that neither start with a
\* transaction marker nor belong to the CREATE TABLE _cf_KV statement, also when the
\* statement is a single line; the skip state is on only inside such a statement.
C17_CleanerKeepsTheRest ==
    /\ \A k \in 1..clean_i :
          (~IsMarker(dump_lines[k]) /\ ~InKvStatement(k)) => k \in Range(kept)
    /\ \A m, n \in DOMAIN kept : m < n => kept[m] < kept[n]
    /\ cleaned_lines = [n \in DOMAIN kept |-> dump_lines[kept[n]]]
    /\ skip_kv_block =>
          /\ clean_i > 0 /\ InKvStatement(clean_i)
          /\ ~HasWithoutRowid(dump_lines[clean_i])

----------------------------------------------------------------------------
(* Properties of populate.py, checked under SpecPopulate.                  *)

\* rclone check found the ZIP unchanged on R2
ZipUnchanged == \E i \in DOMAIN cmds : cmds[i].verb = "check" /\ cmds[i].rc = 0

\* nothing of the WDI processing has happened: no copy to R2, nothing unzipped, the
\* database file still there if it was, and the WDI tables as they were
WdiSkipped ==
    /\ \A i \in DOMAIN cmds : cmds[i].verb # "copy"
    /\ "csv" \notin temp
    /\ database_start.exists => database.exists
    /\ database.wdi = database_start.wdi

\* C16: when rclone check ends with status 0 the ZIP is not copied to R2 and not
\* unzipped, no database file is deleted and no WDI table is created; and in every
\* run that completes the population data has been fetched and imported.
C16_SkipWdiButImportPopulation ==
    /\ ZipUnchanged => WdiSkipped
    /\ pc = "done" => (pop_data # "unfetched" /\ database.pop = "new")

----------------------------------------------------------------------------
(* Properties of the D1 update loop, checked under SpecD1Loops for the     *)
(* loops of duckdbexport.main and update_d1.main.                          *)

\* the list the loop of the running program goes through
LoopList == IF "local_d1" \in DOMAIN args THEN tables_to_update ELSE changed_tables

\* the commands of the loop, in the order in which they ran
LoopCmds == SelectSeq(cmds, LAMBDA c : c.verb \in {"dump", "drop", "load"})

LoopSteps == <<"dump", "drop", "load">>

\* C18: the loop takes the tables in list order and runs dump, DROP, load for each:
\* the k-th command of the loop is step ((k-1) mod 3) of table ((k-1) div 3) of the
\* list, a DROP finds the dump file of its table written, and a command that
\* failed is the last one of the run.
C18_LoopOrderAndFailStop ==
    /\ Len(LoopCmds) <= 3 * Len(LoopList)
    /\ \A k \in DOMAIN LoopCmds :
          /\ LoopCmds[k].verb = LoopSteps[((k - 1) % 3) + 1]
          /\ LoopCmds[k].files = <<LoopList[((k - 1) \div 3) + 1]>>
          /\ LoopCmds[k].verb = "drop" => LoopList[((k - 1) \div 3) + 1] \in DOMAIN dumps
          /\ LoopCmds[k].rc # 0 => k = Len(LoopCmds) /\ pc = "error"

\* a run of update_d1.main that went through one table and failed at the DROP of
\* the second one
C18_Witness ==
    /\ "local" \in DOMAIN args
    /\ pc = "error"
    /\ Len(LoopCmds) = 5
    /\ LoopCmds[5].rc # 0
    /\ LoopCmds[1].files # LoopCmds[5].files

----------------------------------------------------------------------------
(* Properties of update_d1.py, checked under SpecUpdateD1.                 *)

\* D1 as it was before the k-th command of the run
RECURSIVE D1Before(_)
D1Before(k) ==
    IF k = 1 THEN d1_start
    ELSE LET c == cmds[k - 1]
             before == D1Before(k - 1)
         IN  IF c.rc # 0 THEN before
             ELSE IF c.verb = "drop" THEN DropTable(before, c.files[1])
             ELSE IF c.verb = "load" THEN LoadDump(before, DumpOf(sqlite, c.files[1]))
             ELSE before

\* the tables the run has dropped: a DROP succeeded for a table D1 then held
DroppedTables ==
    {cmds[k].files[1] : k \in {j \in DOMAIN cmds : /\ cmds[j].verb = "drop"
                                                   /\ cmds[j].rc = 0
                                                   /\ cmds[j].files[1] \in DOMAIN D1Before(j)}}

\* C20: when a run of update_d1.main completes, every table it dropped from D1
\* exists in D1 again.
C20_DroppedTablesRecreated ==
    pc = "done" => \A t \in DroppedTables : t \in DOMAIN d1

----------------------------------------------------------------------------
(* Properties of successive runs of duckdbexport.py, checked under         *)
(* SpecRuns.                                                               *)

\* the tables some run, this one included, has found changed
EverChanged == ever_changed \cup Range(changed_tables)

\* D1 holds the table with the content of the DuckDB table, or with --sample-d1 a
\* sample of it
D1Current(t) ==
    /\ t \in DOMAIN d1
    /\ d1[t] \in SubSeqs(duck[t])
    /\ ~args.sample_d1 => d1[t] = duck[t]

\* C19: when a run completes, every table that this run or an earlier one found
\* changed against R2 is in D1 with its current content.
C19_CompletedRunLeavesD1Current ==
    pc = "done" => \A t \in EverChanged : D1Current(t)

----------------------------------------------------------------------------
(* Properties of export_parquet.py, checked under SpecExportParquet.       *)

\* the path names a Parquet file that is on disk
ParquetOnDisk(p) ==
    /\ EndsWith(Basename(p), DotParquet)
    /\ p \in DOMAIN disk
    /\ disk[p] # Corrupt

\* C21: once json_output is written, every path of its list is a Parquet file
\* that exists on disk, with --output-dir and without.
C21_ListedFilesExist ==
    json_output.written => \A i \in DOMAIN json_output.value :
                              ParquetOnDisk(json_output.value[i])

====
